---- MODULE Spec2Model ----
(***************************************************************************)
(* Model of scripts/search_files.py (ALEAPP file seekers) and of the       *)
(* search endpoint of examples/web_api_server.py.                          *)
(*                                                                         *)
(* One seeker instance (FileSeekerDir, FileSeekerTar, FileSeekerZip or     *)
(* FileSeekerWeb) is constructed in Init; every step is one call of its    *)
(* search method (Spec), or of search and then cleanup (SpecCleanup).      *)
(* SpecRetry, SpecStamp and SpecDecode run one search of a new web or zip  *)
(* seeker against a scripted remote or archive.  Strings are sequences of  *)
(* one-character strings, byte strings sequences of integers.  The         *)
(* platform is POSIX: os.path.normcase returns its argument unchanged and  *)
(* is_platform_windows() is false; the time zone is UTC.                   *)
(***************************************************************************)
EXTENDS Integers, Sequences, FiniteSets, TLC

\* ------------------------------------------------------------------------
\* Bounds
\* ------------------------------------------------------------------------

\* number of search calls made on the instance
MaxCalls == 2

\* number of failures (failed extractions, failed remote search requests)
\* the environment injects over the instance's life
MaxFaults == 1

\* number of cleanup calls made on the instance
MaxCleanups == 2

\* number of search calls made before the instance is cleaned up
MaxSearches == 1

\* ------------------------------------------------------------------------
\* String helpers (python str / os.path semantics)
\* ------------------------------------------------------------------------

SLASH == "/"

\* s.startswith(prefix)
StartsWith(s, prefix) ==
    /\ Len(prefix) <= Len(s)
    /\ SubSeq(s, 1, Len(prefix)) = prefix

\* s[n:]  (python slice from index n, 0-based)
SliceFrom(s, n) == IF n >= Len(s) THEN <<>> ELSE SubSeq(s, n + 1, Len(s))

\* s.lstrip(ch)
RECURSIVE LStrip(_, _)
LStrip(s, ch) ==
    IF s # <<>> /\ Head(s) = ch THEN LStrip(Tail(s), ch) ELSE s

\* s.replace(old, '') : every non-overlapping occurrence, left to right
RECURSIVE ReplaceWithEmpty(_, _)
ReplaceWithEmpty(s, old) ==
    IF s = <<>> \/ old = <<>> THEN s
    ELSE IF StartsWith(s, old) THEN ReplaceWithEmpty(SliceFrom(s, Len(old)), old)
    ELSE <<Head(s)>> \o ReplaceWithEmpty(Tail(s), old)

\* os.path.join(a, b) on POSIX
PathJoin(a, b) ==
    IF b # <<>> /\ Head(b) = SLASH THEN b
    ELSE IF a = <<>> \/ a[Len(a)] = SLASH THEN a \o b
    ELSE a \o <<SLASH>> \o b

\* os.path.normcase on POSIX
normcase(s) == s

\* fnmatch: the compiled pattern must match the whole string; '*' matches
\* any run of characters (the separator included), '?' exactly one.
RECURSIVE FnMatchFrom(_, _, _, _)
FnMatchFrom(pat, i, s, j) ==
    IF i > Len(pat) THEN j > Len(s)
    ELSE IF pat[i] = "*"
         THEN \/ FnMatchFrom(pat, i + 1, s, j)
              \/ (j <= Len(s) /\ FnMatchFrom(pat, i, s, j + 1))
    ELSE IF pat[i] = "?"
         THEN j <= Len(s) /\ FnMatchFrom(pat, i + 1, s, j + 1)
    ELSE j <= Len(s) /\ s[j] = pat[i] /\ FnMatchFrom(pat, i + 1, s, j + 1)

\* _compile_pattern(pat)(s) is not None
compile_pattern(pat, s) == FnMatchFrom(pat, 1, s, 1)

\* ------------------------------------------------------------------------
\* Finite maps (python dict)
\* ------------------------------------------------------------------------

EmptyMap == [k \in {} |-> k]

Range(f) == {f[i] : i \in DOMAIN f}

Put(f, k, v) == [x \in (DOMAIN f) \cup {k} |-> IF x = k THEN v ELSE f[x]]

\* d.get(key, default)
Get(d, key, default) == IF key \in DOMAIN d THEN d[key] ELSE default

\* ------------------------------------------------------------------------
\* Numbers in HTTP headers (whole seconds)
\* ------------------------------------------------------------------------

Digits == <<"0", "1", "2", "3", "4", "5", "6", "7", "8", "9">>

\* str(n)
RECURSIVE DecimalString(_)
DecimalString(n) ==
    IF n < 10 THEN <<Digits[n + 1]>>
    ELSE DecimalString(n \div 10) \o <<Digits[(n % 10) + 1]>>

\* float(s) raises ValueError unless s is a number
IsNumber(s) == s # <<>> /\ \A i \in 1..Len(s) : s[i] \in Range(Digits)

\* float(s) for a number s
RECURSIVE ParseNumber(_)
ParseNumber(s) ==
    IF s = <<>> THEN 0
    ELSE 10 * ParseNumber(SubSeq(s, 1, Len(s) - 1))
            + (CHOOSE d \in 0..9 : Digits[d + 1] = s[Len(s)])

\* ------------------------------------------------------------------------
\* The evidence and the patterns the callers use
\* ------------------------------------------------------------------------

S_a      == <<"a">>
S_b_db   == <<"b", ".", "d", "b">>
S_c_db   == <<"c", ".", "d", "b">>
S_d_db   == <<"d", ".", "d", "b">>
S_a_b_db == <<"a", "/", "b", ".", "d", "b">>
S_a_c_db == <<"a", "/", "c", ".", "d", "b">>
S_macosx == <<"_", "_", "M", "A", "C", "O", "S", "X">>
S_mac_b  == S_macosx \o <<"/", ".", "_", "b", ".", "d", "b">>
S_root   == <<"r", "o", "o", "t", "/">>

\* patterns: "*/a/b.db", "root/a/b.db", "a/b.db", "*.db", "*/a*"
P_star_ab == <<"*", "/">> \o S_a_b_db
P_root_ab == S_root \o S_a_b_db
P_ab      == S_a_b_db
P_db      == <<"*", ".", "d", "b">>
P_a_any   == <<"*", "/", "a", "*">>

Patterns == {P_star_ab, P_root_ab, P_ab, P_db, P_a_any}

\* destination root
DataFolder == <<"/", "o">>

\* root directory strings a FileSeekerDir may be constructed with
Directories == { <<"/", "e">>, <<"/", "e", "/">> }

Backends == {"dir", "tar", "zip", "web"}

\* The evidence tree: directory a holding b.db and c.db, and file d.db.
\* Children of a directory given by its path relative to the root, in the
\* order the listing yields them.
FsChildren(rel) ==
    IF rel = <<>> THEN << [name |-> S_a, isdir |-> TRUE],
                          [name |-> S_d_db, isdir |-> FALSE] >>
    ELSE IF rel = S_a THEN << [name |-> S_b_db, isdir |-> FALSE],
                              [name |-> S_c_db, isdir |-> FALSE] >>
    ELSE <<>>


\* Path(item).stat() of a file of the evidence tree
PathStat(item) == [st_ctime |-> 300, st_mtime |-> 200]

\* FileSeekerDir.build_files_list: every entry (directories included) is
\* appended with its joined path, directories are then walked recursively.
\* An entry is [name |-> path, isdir |-> whether the path is a directory].
RECURSIVE build_files_list(_, _, _)
build_files_list(directory, rel, k) ==
    IF k > Len(FsChildren(rel)) THEN <<>>
    ELSE LET item == FsChildren(rel)[k]
             path == PathJoin(directory, item.name)
             sub  == IF item.isdir
                     THEN build_files_list(path, PathJoin(rel, item.name), 1)
                     ELSE <<>>
         IN  <<[name |-> path, isdir |-> item.isdir]>> \o sub
                 \o build_files_list(directory, rel, k + 1)

\* tarfile.getmembers(): the member table of the archive of the evidence
TarMembers ==
    << [name |-> S_a, isdir |-> TRUE, mtime |-> 700],
       [name |-> S_a_b_db, isdir |-> FALSE, mtime |-> 700],
       [name |-> S_a_c_db, isdir |-> FALSE, mtime |-> 700],
       [name |-> S_d_db, isdir |-> FALSE, mtime |-> 700] >>

\* web_api_server.build_file_index: files only, paths relative to the root,
\* with the mtime and ctime of the file; headers are the X-File-Mtime and
\* X-File-Ctime headers web_api_server.download_file sends with the file
RECURSIVE build_file_index(_, _)
build_file_index(rel, k) ==
    IF k > Len(FsChildren(rel)) THEN <<>>
    ELSE LET item == FsChildren(rel)[k]
             path == PathJoin(rel, item.name)
             stat == PathStat(path)
         IN  (IF item.isdir THEN build_file_index(path, 1)
              ELSE <<[name |-> path, isdir |-> FALSE,
                      meta |-> ("mtime" :> stat.st_mtime
                                   @@ "ctime" :> stat.st_ctime),
                      headers |-> ("X-File-Mtime" :> DecimalString(stat.st_mtime)
                                   @@ "X-File-Ctime" :> DecimalString(stat.st_ctime))]>>)
                 \o build_file_index(rel, k + 1)

\* web_api_server.search_files: the files the remote index returns
search_files(pattern) ==
    IF pattern = <<>> THEN <<>>
    ELSE LET stripped == LStrip(LStrip(pattern, "*"), SLASH)
             search_pattern == IF StartsWith(stripped, S_root)
                               THEN SliceFrom(stripped, 5) ELSE stripped
         IN  SelectSeq(build_file_index(<<>>, 1),
                       LAMBDA f : \/ compile_pattern(search_pattern, f.name)
                                  \/ compile_pattern(pattern, f.name))

\* scripts.ilapfuncs.sanitize_file_path: characters illegal in a local
\* file name are replaced by an underscore
IllegalChars == {":", "*", "?", "<", ">", "|"}

sanitize_file_path(s) ==
    [i \in 1..Len(s) |-> IF s[i] \in IllegalChars THEN "_" ELSE s[i]]

\* ZipFile.extract(member, path): destination of the member under path
ZipExtractPath(member) == PathJoin(DataFolder, LStrip(member, SLASH))

\* ------------------------------------------------------------------------
\* Timestamps
\* ------------------------------------------------------------------------

\* FileInfo(source_path, creation_date, modification_date)
FileInfo(source_path, creation_date, modification_date) ==
    [ source_path |-> source_path, creation_date |-> creation_date,
      modification_date |-> modification_date ]

\* python None, and an integer value v, of a variable that may hold either
None == <<>>
Some(v) == <<v>>

\* byte strings are sequences of integers 0..255; offsets count from 0
\* struct.pack('<H', n) and struct.pack('<I', n)
U16LE(n) == << n % 256, (n \div 256) % 256 >>
U32LE(n) == << n % 256, (n \div 256) % 256, (n \div 65536) % 256,
               (n \div 16777216) % 256 >>

\* struct.unpack_from raises struct.error unless size bytes lie at offset
Readable(data, offset, size) == offset + size <= Len(data)

\* struct.unpack_from('<H', data, offset) and ('<I', data, offset)
UnpackU16(data, offset) == data[offset + 1] + 256 * data[offset + 2]
UnpackU32(data, offset) ==
    data[offset + 1] + 256 * data[offset + 2] + 65536 * data[offset + 3]
        + 16777216 * data[offset + 4]

\* header id of the Extended Timestamp record ("UT")
ExtendedTimestampId == 21589

\* flags & bit, for bit a power of two
BitSet(flags, bit) == (flags \div bit) % 2 = 1

StructError == [kind |-> "raise", creation |-> None, modification |-> None]

\* a decoder that returns the pair in the order it read it
Decoded_ModificationFirst(creation_time, modification_time) ==
    [kind |-> "ok", creation |-> modification_time,
     modification |-> creation_time]

\* "return creation_time, modification_time"
Decoded(creation_time, modification_time) ==
    [kind |-> "ok", creation |-> creation_time,
     modification |-> modification_time]

\* the body of "if header_id == 0x5455:", offset just behind the header
ReadExtendedTimestamp(extra_data, offset) ==
    IF ~Readable(extra_data, offset, 1) THEN StructError
    ELSE LET flags == extra_data[offset + 1]
             at_m == offset + 1
             has_m == BitSet(flags, 1)
             at_c == IF has_m THEN at_m + 4 ELSE at_m
             has_c == BitSet(flags, 4)
         IN  IF has_m /\ ~Readable(extra_data, at_m, 4) THEN StructError
             ELSE IF has_c /\ ~Readable(extra_data, at_c, 4) THEN StructError
             ELSE Decoded(IF has_c THEN Some(UnpackU32(extra_data, at_c))
                          ELSE None,
                          IF has_m THEN Some(UnpackU32(extra_data, at_m))
                          ELSE None)

\* the loop "while offset < length" of decode_extended_timestamp
RECURSIVE DecodeFrom(_, _)
DecodeFrom(extra_data, offset) ==
    IF offset >= Len(extra_data) THEN Decoded(None, None)
    ELSE IF ~Readable(extra_data, offset, 4) THEN StructError
    ELSE LET header_id == UnpackU16(extra_data, offset)
             data_size == UnpackU16(extra_data, offset + 2)
         IN  IF header_id = ExtendedTimestampId
             THEN ReadExtendedTimestamp(extra_data, offset + 4)
             ELSE DecodeFrom(extra_data, offset + 4 + data_size)

\* FileSeekerZip.decode_extended_timestamp
decode_extended_timestamp(extra_data) == DecodeFrom(extra_data, 0)

\* the calendar of time.mktime, in a zone without offset from UTC
IsLeap(y) == (y % 4 = 0 /\ y % 100 # 0) \/ y % 400 = 0

LeapDaysBefore(y) == (y - 1) \div 4 - (y - 1) \div 100 + (y - 1) \div 400

DaysBeforeMonth(y, m) ==
    << 0, 31, 59, 90, 120, 151, 181, 212, 243, 273, 304, 334 >>[m]
        + (IF m > 2 /\ IsLeap(y) THEN 1 ELSE 0)

\* "timex.mktime(date_time + (0, 0, -1))": seconds since the epoch of the
\* calendar time date_time = (year, month, day, hour, minute, second)
mktime(date_time) ==
    LET y == date_time[1]
        days == 365 * (y - 1970) + LeapDaysBefore(y) - LeapDaysBefore(1970)
                    + DaysBeforeMonth(y, date_time[2]) + (date_time[3] - 1)
    IN  ((days * 24 + date_time[4]) * 60 + date_time[5]) * 60 + date_time[6]

\* date_time of a member stored at the earliest DOS time
DosEpoch == <<1980, 1, 1, 0, 0, 0>>

\* an extra-field record: header id, data size, data
Record(header_id, data) == U16LE(header_id) \o U16LE(Len(data)) \o data

\* the data of an Extended Timestamp record: the flag byte, then the
\* modification time (flag bit 0), then the creation time (flag bit 2)
TimestampData(flags, mtime, ctime) ==
    <<flags>> \o (IF BitSet(flags, 1) THEN U32LE(mtime) ELSE <<>>)
              \o (IF BitSet(flags, 4) THEN U32LE(ctime) ELSE <<>>)


\* ZipFile.namelist() with ZipFile.getinfo(member).extra and .date_time: a
\* Mac-produced archive of the evidence
ZipNameList ==
    << [name |-> S_a_b_db, isdir |-> FALSE, date_time |-> DosEpoch,
        extra |-> Record(1, <<7, 7>>)
                    \o Record(ExtendedTimestampId,
                              TimestampData(5, 2000, 1000))],
       [name |-> S_mac_b, isdir |-> FALSE, date_time |-> DosEpoch,
        extra |-> <<>>],
       [name |-> S_a_c_db, isdir |-> FALSE, date_time |-> DosEpoch,
        extra |-> Record(ExtendedTimestampId, TimestampData(1, 2000, 0))],
       [name |-> S_d_db, isdir |-> FALSE, date_time |-> DosEpoch,
        extra |-> <<>>] >>

\* ------------------------------------------------------------------------
\* State
\* ------------------------------------------------------------------------

VARIABLES
    backend,     \* which seeker class the instance is
    directory,   \* FileSeekerDir.directory (empty for the other backends)
    listing,     \* _all_files / tar member table / name_list (none for web)
    searched,    \* self.searched : pattern -> list of local paths
    copied,      \* self.copied : source item -> local path
    file_infos,  \* self.file_infos : local path -> FileInfo
    mtimes,      \* local path -> modification time os.utime gave the file
    writes,      \* per source item, how often its bytes were written to disk
    disk,        \* local paths whose bytes (or directory) exist on disk
    ncalls,      \* number of search calls made so far
    nfaults,     \* number of failures the environment injected so far
    everForced,  \* some search call so far was made with force=true
    call,        \* the latest search call: arguments, outcome, result
    repeated,    \* the latest call repeated the call before it, force=false
    input,       \* the scripted input of a single-operation scenario
    output,      \* what the operation made of that input
    resource,    \* tar_file / zip_file / _session: "open", "closed" (the
                 \* archive handle after close()), "none" (_session = None),
                 \* "absent" (FileSeekerDir owns no resource)
    closing      \* the cleanup calls so far: how many, and whether one raised

vars == <<backend, directory, listing, searched, copied, file_infos, mtimes,
          writes, disk, ncalls, nfaults, everForced, call, repeated, input,
          output, resource, closing>>

\* what can happen to one extraction:
\*   ok          every step succeeded
\*   fail_write  the copy / write / extract / download raised, no bytes kept
\*   fail_meta   bytes written, then reading the metadata raised
\*               (stat, getinfo / timestamp decoding, header parsing)
\*   fail_utime  bytes written and FileInfo recorded, then mktime/utime raised
Outcomes(b) ==
    CASE b = "dir" -> {"ok", "fail_write", "fail_meta"}
      [] b = "tar" -> {"ok", "fail_write", "fail_utime"}
      [] b = "zip" -> {"ok", "fail_write", "fail_meta", "fail_utime"}
      [] b = "web" -> {"ok", "fail_write", "fail_meta"}

\* outcome of the remote search request of FileSeekerWeb._search_api
ApiOutcomes == {"ok", "error"}

Count(w, k) == IF k \in DOMAIN w THEN w[k] ELSE 0

\* value of a local variable that was never assigned
Unbound == <<>>

\* the local state of one running search call
StartScan ==
    [ pathlist |-> <<>>, copied |-> copied, file_infos |-> file_infos,
      mtimes |-> mtimes, writes |-> writes, disk |-> disk, attempts |-> EmptyMap,
      extracted_path |-> Unbound, appended |-> FALSE, requests |-> 0,
      searched |-> searched, kind |-> "run", ret |-> <<>>, api |-> "none" ]

\* bytes of item written to path
Written(st, item, path) ==
    [st EXCEPT !.writes = Put(@, item, Count(@, item) + 1),
               !.disk = @ \cup {path}]

\* a seeker that never consults its pattern cache
CacheHit_Never(pattern, force) == FALSE

\* "if filepattern in self.searched and not force": serve from the cache
CacheHit(pattern, force) == pattern \in DOMAIN searched /\ ~force

\* "return self.searched[filepattern][0] if return_on_first_hit and pathlist
\*  else pathlist"
CachedResult(pattern, first) ==
    LET pathlist == searched[pattern]
    IN  IF first /\ pathlist # <<>>
        THEN [StartScan EXCEPT !.kind = "single", !.ret = <<pathlist[1]>>]
        ELSE [StartScan EXCEPT !.kind = "list", !.ret = pathlist]

\* a first-hit return that leaves the pattern cache as it was
ReturnFirst_NotCached(st, pattern) ==
    [st EXCEPT !.kind = "single",
               !.ret = <<st.pathlist[Len(st.pathlist)]>>]

\* "self.searched[filepattern] = pathlist; return <path>" on the first hit
ReturnFirst(st, pattern) ==
    [st EXCEPT !.searched = Put(@, pattern, st.pathlist),
               !.kind = "single",
               !.ret = <<st.pathlist[Len(st.pathlist)]>>]

\* a scan that caches its result only when it found something
ReturnAll_SkipsEmpty(st, pattern) ==
    [st EXCEPT !.searched = IF st.pathlist = <<>> THEN @
                            ELSE Put(@, pattern, st.pathlist),
               !.kind = "list",
               !.ret = st.pathlist]

\* "self.searched[filepattern] = pathlist; return pathlist" after the loop
ReturnAll(st, pattern) ==
    [st EXCEPT !.searched = Put(@, pattern, st.pathlist),
               !.kind = "list",
               !.ret = st.pathlist]


\* ------------------------------------------------------------------------
\* FileSeekerDir.search
\* ------------------------------------------------------------------------

\* "pat( root + normcase(item) ) is not None"
DirMatches(pattern, entry) ==
    compile_pattern(normcase(pattern), normcase(S_root) \o normcase(entry.name))

\* "item_rel_path = item.replace(self.directory, '');
\*  data_path = os.path.join(self.data_folder, item_rel_path[1:])"
DirDataPath(item, dir) ==
    PathJoin(DataFolder, SliceFrom(ReplaceWithEmpty(item, dir), 1))

\* indices of the entries of the listing the pattern matches
DirMatching(pattern) ==
    {k \in 1..Len(listing) : DirMatches(pattern, listing[k])}

\* the body of the loop for one matching item; copyfile raises on a
\* directory, whatever the environment does
DirItem(st, entry, dir, force, o) ==
    LET item == entry.name
        data_path == DirDataPath(item, dir)
        eff == IF entry.isdir THEN "fail_write" ELSE o
        stat == PathStat(item)
    IN  IF item \notin DOMAIN st.copied \/ force
        THEN LET tried == [st EXCEPT !.attempts = Put(@, item, eff),
                                     !.pathlist = Append(@, data_path),
                                     !.appended = TRUE]
             IN  CASE eff = "ok" ->
                        [Written(tried, item, data_path) EXCEPT
                            !.copied = Put(@, item, data_path),
                            !.file_infos =
                                Put(@, data_path,
                                    FileInfo(item, stat.st_ctime,
                                             stat.st_mtime))]
                   [] eff = "fail_meta" ->
                        [Written(tried, item, data_path) EXCEPT
                            !.copied = Put(@, item, data_path)]
                   [] OTHER -> tried
        ELSE [st EXCEPT !.pathlist = Append(@, st.copied[item]),
                        !.appended = TRUE]

RECURSIVE DirScan(_, _, _, _, _, _)
RECURSIVE DirScan_NoShortCircuit(_, _, _, _, _, _)

\* a loop that tests return_on_first_hit only after the whole listing
DirScan_NoShortCircuit(st, k, pattern, first, force, out) ==
    IF k > Len(listing)
    THEN IF first /\ st.pathlist # <<>>
         THEN [ReturnAll(st, pattern) EXCEPT !.kind = "single",
                                             !.ret = <<st.pathlist[1]>>]
         ELSE ReturnAll(st, pattern)
    ELSE IF ~DirMatches(pattern, listing[k])
         THEN DirScan_NoShortCircuit(st, k + 1, pattern, first, force, out)
    ELSE DirScan_NoShortCircuit(DirItem(st, listing[k], directory, force, out[k]),
                                k + 1, pattern, first, force, out)

DirScan(st, k, pattern, first, force, out) ==
    IF k > Len(listing) THEN ReturnAll(st, pattern)
    ELSE IF ~DirMatches(pattern, listing[k])
         THEN DirScan(st, k + 1, pattern, first, force, out)
    ELSE LET r == DirItem(st, listing[k], directory, force, out[k])
         IN  IF first THEN ReturnFirst(r, pattern)
             ELSE DirScan(r, k + 1, pattern, first, force, out)

FileSeekerDir_search(pattern, first, force, out) ==
    IF CacheHit(pattern, force) THEN CachedResult(pattern, first)
    ELSE DirScan(StartScan, 1, pattern, first, force, out)

\* ------------------------------------------------------------------------
\* FileSeekerTar.search
\* ------------------------------------------------------------------------

\* "pat( root + normcase(member.name) ) is not None"
TarMatches(pattern, entry) ==
    compile_pattern(normcase(pattern), normcase(S_root) \o normcase(entry.name))

\* "full_path = os.path.join(self.data_folder, Path(clean_name))"
TarFullPath(name) == PathJoin(DataFolder, sanitize_file_path(name))

\* indices of the entries of the listing the pattern matches
TarMatching(pattern) ==
    {k \in 1..Len(listing) : TarMatches(pattern, listing[k])}

\* a loop body whose extraction-cache test forgets "or force"
TarItem_IgnoresForce(st, entry, force, o) ==
    LET name == entry.name
        full_path == TarFullPath(name)
    IN  IF name \notin DOMAIN st.copied
        THEN LET tried == [st EXCEPT !.attempts = Put(@, name, o),
                                     !.pathlist = Append(@, full_path),
                                     !.appended = TRUE]
             IN  IF entry.isdir
                 THEN IF o = "fail_write" THEN tried
                      ELSE [tried EXCEPT !.disk = @ \cup {full_path}]
                 ELSE IF o = "fail_write" THEN tried
                      ELSE [Written(tried, name, full_path) EXCEPT
                                !.file_infos =
                                    Put(@, full_path,
                                        FileInfo(name, 0, entry.mtime)),
                                !.copied = Put(@, name, full_path),
                                !.mtimes = IF o = "ok"
                                           THEN Put(@, full_path, entry.mtime)
                                           ELSE @]
        ELSE [st EXCEPT !.pathlist = Append(@, st.copied[name]),
                        !.appended = TRUE]

TarItem(st, entry, force, o) ==
    LET name == entry.name
        full_path == TarFullPath(name)
    IN  IF name \notin DOMAIN st.copied \/ force
        THEN LET tried == [st EXCEPT !.attempts = Put(@, name, o),
                                     !.pathlist = Append(@, full_path),
                                     !.appended = TRUE]
             IN  IF entry.isdir
                 THEN IF o = "fail_write" THEN tried
                      ELSE [tried EXCEPT !.disk = @ \cup {full_path}]
                 ELSE IF o = "fail_write" THEN tried
                      ELSE [Written(tried, name, full_path) EXCEPT
                                !.file_infos =
                                    Put(@, full_path,
                                        FileInfo(name, 0, entry.mtime)),
                                !.copied = Put(@, name, full_path),
                                !.mtimes = IF o = "ok"
                                           THEN Put(@, full_path, entry.mtime)
                                           ELSE @]
        ELSE [st EXCEPT !.pathlist = Append(@, st.copied[name]),
                        !.appended = TRUE]

RECURSIVE TarScan(_, _, _, _, _, _)
TarScan(st, k, pattern, first, force, out) ==
    IF k > Len(listing) THEN ReturnAll(st, pattern)
    ELSE IF ~TarMatches(pattern, listing[k])
         THEN TarScan(st, k + 1, pattern, first, force, out)
    ELSE LET r == TarItem(st, listing[k], force, out[k])
         IN  IF first THEN ReturnFirst(r, pattern)
             ELSE TarScan(r, k + 1, pattern, first, force, out)

FileSeekerTar_search(pattern, first, force, out) ==
    IF CacheHit(pattern, force) THEN CachedResult(pattern, first)
    ELSE TarScan(StartScan, 1, pattern, first, force, out)

\* ------------------------------------------------------------------------
\* FileSeekerZip.search
\* ------------------------------------------------------------------------

\* a scan that does not skip the __MACOSX members
ZipMatches_KeepsMacosx(pattern, entry) ==
    compile_pattern(normcase(pattern), normcase(S_root) \o normcase(entry.name))

\* "if member.startswith('__MACOSX'): continue" and
\* "pat( root + normcase(member) ) is not None"
ZipMatches(pattern, entry) ==
    /\ ~StartsWith(entry.name, S_macosx)
    /\ compile_pattern(normcase(pattern), normcase(S_root) \o normcase(entry.name))

\* indices of the entries of the listing the pattern matches
ZipMatching(pattern) ==
    {k \in 1..Len(listing) : ZipMatches(pattern, listing[k])}

\* extracted_path is assigned by zip_file.extract inside the try block, so a
\* raising extract leaves the value of an earlier iteration, or no value;
\* appending a never-assigned local raises UnboundLocalError out of search
\* decode_extended_timestamp raises on an extra field it cannot read,
\* whatever the environment does
ZipItem(st, entry, force, o) ==
    LET member == entry.name
        path == ZipExtractPath(member)
        stamp == decode_extended_timestamp(entry.extra)
        eff == IF o \in {"ok", "fail_utime"} /\ stamp.kind = "raise"
               THEN "fail_meta" ELSE o
        file_info == FileInfo(member, stamp.creation, stamp.modification)
        date_time == mktime(entry.date_time)
        r == IF member \notin DOMAIN st.copied \/ force
             THEN LET tried == [st EXCEPT !.attempts = Put(@, member, eff)]
                      got == [Written(tried, member, path) EXCEPT
                                 !.extracted_path = path]
                  IN  CASE eff = "ok" ->
                             [got EXCEPT !.file_infos = Put(@, path, file_info),
                                         !.mtimes = Put(@, path, date_time),
                                         !.copied = Put(@, member, path)]
                        [] eff = "fail_utime" ->
                             [got EXCEPT !.file_infos = Put(@, path, file_info)]
                        [] eff = "fail_meta" -> got
                        [] OTHER -> tried
             ELSE [st EXCEPT !.extracted_path = st.copied[member]]
    IN  IF r.extracted_path = Unbound
        THEN [r EXCEPT !.kind = "raise"]
        ELSE [r EXCEPT !.pathlist = Append(@, r.extracted_path),
                       !.appended = TRUE]

RECURSIVE ZipScan(_, _, _, _, _, _)
ZipScan(st, k, pattern, first, force, out) ==
    IF k > Len(listing) THEN ReturnAll(st, pattern)
    ELSE IF ~ZipMatches(pattern, listing[k])
         THEN ZipScan(st, k + 1, pattern, first, force, out)
    ELSE LET r == ZipItem(st, listing[k], force, out[k])
         IN  IF r.kind = "raise" THEN r
             ELSE IF first THEN ReturnFirst(r, pattern)
             ELSE ZipScan(r, k + 1, pattern, first, force, out)

FileSeekerZip_search(pattern, first, force, out) ==
    IF CacheHit(pattern, force) THEN CachedResult(pattern, first)
    ELSE ZipScan(StartScan, 1, pattern, first, force, out)

\* ------------------------------------------------------------------------
\* FileSeekerWeb.search
\* ------------------------------------------------------------------------

\* "Retry(total=3, ...)": retries allowed beyond the first attempt
RetryTotal == 3

\* "status_forcelist=[429, 500, 502, 503, 504]"
StatusForcelist == {429, 500, 502, 503, 504}

\* the statuses a remote answers with
Statuses == {200, 404} \cup StatusForcelist

\* a scripted remote: it answers status busy to the first n attempts of a
\* request and status final to every later attempt
AnswerAt(script, attempt) ==
    IF attempt <= script.n THEN script.busy ELSE script.final

RECURSIVE session_get(_, _, _)
RECURSIVE session_get_CountsAttempts(_, _, _)

\* a policy that takes total as the number of attempts, not of retries
session_get_CountsAttempts(script, attempt, retries_left) ==
    LET status == AnswerAt(script, attempt)
    IN  IF status \in StatusForcelist
        THEN IF retries_left > 1
             THEN session_get_CountsAttempts(script, attempt + 1,
                                             retries_left - 1)
             ELSE [kind |-> "retry_error", status |-> status,
                   attempts |-> attempt]
        ELSE [kind |-> "response", status |-> status, attempts |-> attempt]

\* self._session.get through the mounted adapter: an answer whose status is
\* in the forcelist is retried while retries are left, and ends the request
\* with an exception when none is; any other answer is the response
session_get(script, attempt, retries_left) ==
    LET status == AnswerAt(script, attempt)
    IN  IF status \in StatusForcelist
        THEN IF retries_left > 0
             THEN session_get(script, attempt + 1, retries_left - 1)
             ELSE [kind |-> "retry_error", status |-> status,
                   attempts |-> attempt]
        ELSE [kind |-> "response", status |-> status, attempts |-> attempt]

\* "response = self._session.get(...); response.raise_for_status()": the
\* request of _search_api ends well when a response below 400 came back
RequestOutcome(resp) ==
    IF resp.kind = "response" /\ resp.status < 400 THEN "ok" ELSE "error"

\* FileSeekerWeb._search_api: the remote's files, [] when the request fails
search_api(pattern, api) ==
    IF api = "ok" THEN search_files(pattern) ELSE <<>>

\* "if not remote_path: continue"
WebMatches(entry) == entry.name # <<>>

\* "local_path = os.path.join(self.data_folder, clean_name)"
WebLocalPath(remote_path) == PathJoin(DataFolder, sanitize_file_path(remote_path))

\* "float(response.headers.get(name, 0))"
HeaderNumber(headers, name) ==
    IF name \in DOMAIN headers THEN ParseNumber(headers[name]) ELSE 0

\* float() raises ValueError on a header that is not a number
HeadersReadable(headers) ==
    \A name \in {"X-File-Mtime", "X-File-Ctime"} \cap DOMAIN headers :
        IsNumber(headers[name])

\* a recorder that lets the download headers win over the search index
PreferApi_HeaderFirst(api, dl) == IF dl # 0 THEN dl ELSE api

\* "api_ctime or dl_ctime", "api_mtime or dl_mtime"
PreferApi(api, dl) == IF api # 0 THEN api ELSE dl

\* a failed download is logged and the item skipped ("continue"); the
\* download fails on unreadable timestamp headers, whatever the environment
\* does
WebItem(st, entry, force, o) ==
    LET remote_path == entry.name
        local_path == WebLocalPath(remote_path)
        eff == IF o = "ok" /\ ~HeadersReadable(entry.headers)
               THEN "fail_meta" ELSE o
        api_ctime == Get(entry.meta, "ctime", 0)
        api_mtime == Get(entry.meta, "mtime", 0)
        dl_ctime == HeaderNumber(entry.headers, "X-File-Ctime")
        dl_mtime == HeaderNumber(entry.headers, "X-File-Mtime")
        ctime == PreferApi(api_ctime, dl_ctime)
        mtime == PreferApi(api_mtime, dl_mtime)
    IN  IF remote_path \notin DOMAIN st.copied \/ force
        THEN LET tried == [st EXCEPT !.attempts = Put(@, remote_path, eff),
                                     !.requests = @ + 1,
                                     !.appended = FALSE]
             IN  CASE eff = "ok" ->
                        [Written(tried, remote_path, local_path) EXCEPT
                            !.mtimes = IF dl_mtime > 0
                                       THEN Put(@, local_path, dl_mtime)
                                       ELSE @,
                            !.file_infos =
                                Put(@, local_path,
                                    FileInfo(remote_path, ctime, mtime)),
                            !.copied = Put(@, remote_path, local_path),
                            !.pathlist = Append(@, local_path),
                            !.appended = TRUE]
                   [] eff = "fail_meta" -> Written(tried, remote_path, local_path)
                   [] OTHER -> tried
        ELSE [st EXCEPT !.pathlist = Append(@, st.copied[remote_path]),
                        !.appended = TRUE]

RECURSIVE WebScan(_, _, _, _, _, _, _)
RECURSIVE WebScan_StopsAtFailure(_, _, _, _, _, _, _)
\* a loop that gives up at the first failed download
WebScan_StopsAtFailure(st, matching_files, k, pattern, first, force, out) ==
    IF k > Len(matching_files) THEN ReturnAll(st, pattern)
    ELSE IF ~WebMatches(matching_files[k])
         THEN WebScan_StopsAtFailure(st, matching_files, k + 1, pattern,
                                     first, force, out)
    ELSE LET r == WebItem(st, matching_files[k], force, out[k])
         IN  IF ~r.appended THEN ReturnAll(r, pattern)
             ELSE IF first THEN ReturnFirst(r, pattern)
             ELSE WebScan_StopsAtFailure(r, matching_files, k + 1, pattern,
                                         first, force, out)

WebScan(st, matching_files, k, pattern, first, force, out) ==
    IF k > Len(matching_files) THEN ReturnAll(st, pattern)
    ELSE IF ~WebMatches(matching_files[k])
         THEN WebScan(st, matching_files, k + 1, pattern, first, force, out)
    ELSE LET r == WebItem(st, matching_files[k], force, out[k])
         IN  IF r.appended /\ first THEN ReturnFirst(r, pattern)
             ELSE WebScan(r, matching_files, k + 1, pattern, first, force, out)

FileSeekerWeb_search(pattern, first, force, out, api) ==
    IF CacheHit(pattern, force) THEN CachedResult(pattern, first)
    ELSE WebScan([StartScan EXCEPT !.requests = 1, !.api = api],
                 search_api(pattern, api), 1, pattern, first, force, out)


\* ------------------------------------------------------------------------
\* Construction and the search calls
\* ------------------------------------------------------------------------

\* the record of a call: its arguments; known = the pattern was in the
\* pattern cache when it was made; hit = it was served from the cache;
\* found = the source items its scan matched, in enumeration order;
\* attempts = the outcome of every extraction it tried; kind and ret = how
\* it ended ("list", "single" or "raise") and the path(s) it returned;
\* requests = the HTTP requests it issued (remote search and downloads);
\* api = how its remote search request ended ("none": it made no such
\* request); failed = the patterns whose latest remote search request,
\* this call's included, failed
NoCall ==
    [ pattern |-> <<>>, first |-> FALSE, force |-> FALSE, known |-> FALSE,
      hit |-> FALSE, found |-> <<>>, kind |-> "none", ret |-> <<>>,
      attempts |-> EmptyMap, requests |-> 0, api |-> "none", failed |-> {} ]

\* no cleanup call was made yet
NoCleanup == [calls |-> 0, raised |-> FALSE]

Init ==
    /\ backend \in Backends
    /\ directory \in (IF backend = "dir" THEN Directories ELSE {<<>>})
    /\ listing = CASE backend = "dir" -> build_files_list(directory, <<>>, 1)
                   [] backend = "tar" -> TarMembers
                   [] backend = "zip" -> ZipNameList
                   [] backend = "web" -> <<>>
    /\ searched = EmptyMap
    /\ copied = EmptyMap
    /\ file_infos = EmptyMap
    /\ mtimes = EmptyMap
    /\ writes = EmptyMap
    /\ disk = {}
    /\ ncalls = 0
    /\ nfaults = 0
    /\ everForced = FALSE
    /\ call = NoCall
    /\ repeated = FALSE
    /\ input = <<>>
    /\ output = <<>>
    /\ resource = (IF backend = "dir" THEN "absent" ELSE "open")
    /\ closing = NoCleanup

\* the call returns (or raises) with local state r: the instance fields take
\* the values the call left, and the call is recorded
Effects(r, pattern, first, force, found, nf) ==
    /\ searched' = r.searched
    /\ nfaults' = nfaults + nf
    /\ copied' = r.copied
    /\ file_infos' = r.file_infos
    /\ mtimes' = r.mtimes
    /\ writes' = r.writes
    /\ disk' = r.disk
    /\ ncalls' = ncalls + 1
    /\ everForced' = (everForced \/ force)
    /\ call' = [ pattern |-> pattern, first |-> first, force |-> force,
                 known |-> pattern \in DOMAIN searched,
                 hit |-> CacheHit(pattern, force), found |-> found,
                 kind |-> r.kind, ret |-> r.ret, attempts |-> r.attempts,
                 requests |-> r.requests, api |-> r.api,
                 failed |-> CASE r.api = "error" -> call.failed \cup {pattern}
                              [] r.api = "ok" -> call.failed \ {pattern}
                              [] OTHER -> call.failed ]
    /\ repeated' = /\ call.kind \in {"list", "single"}
                   /\ call.pattern = pattern
                   /\ call.first = first
                   /\ ~call.force
                   /\ ~force
    /\ UNCHANGED <<backend, directory, listing, resource, closing>>

\* a search call of the running instance
Commit(r, pattern, first, force, found, nf) ==
    /\ Effects(r, pattern, first, force, found, nf)
    /\ UNCHANGED <<input, output>>

\* indices of the items of L the scan may try to extract
ToExtract(pattern, force, matching) ==
    IF CacheHit(pattern, force) THEN {} ELSE matching

\* the source items of L the scan matches, in enumeration order
Found(L, idx) ==
    LET hits == SelectSeq(L, LAMBDA e : \E k \in idx : L[k] = e)
    IN  [i \in 1..Len(hits) |-> hits[i].name]

\* the failures the environment injects into one call
Faults(out) == Cardinality({k \in DOMAIN out : out[k] # "ok"})

\* the environment's choices for one call: an outcome for every item the
\* scan may extract, within the budget of failures
Choices(idx, b) ==
    {out \in [idx -> Outcomes(b)] : nfaults + Faults(out) <= MaxFaults}

\* a failure is only chosen for an item whose extraction the call attempts
Applied(r, L, out) ==
    \A k \in DOMAIN out : out[k] # "ok" => L[k].name \in DOMAIN r.attempts

DirSearch ==
    /\ backend = "dir"
    /\ ncalls < MaxCalls
    /\ closing.calls = 0
    /\ \E pattern \in Patterns, first \in BOOLEAN, force \in BOOLEAN :
         \E out \in Choices(ToExtract(pattern, force, DirMatching(pattern)),
                            "dir") :
            LET r == FileSeekerDir_search(pattern, first, force, out)
            IN  /\ Applied(r, listing, out)
                /\ Commit(r, pattern, first, force,
                          Found(listing, DOMAIN out), Faults(out))

TarSearch ==
    /\ backend = "tar"
    /\ ncalls < MaxCalls
    /\ closing.calls = 0
    /\ \E pattern \in Patterns, first \in BOOLEAN, force \in BOOLEAN :
         \E out \in Choices(ToExtract(pattern, force, TarMatching(pattern)),
                            "tar") :
            LET r == FileSeekerTar_search(pattern, first, force, out)
            IN  /\ Applied(r, listing, out)
                /\ Commit(r, pattern, first, force,
                          Found(listing, DOMAIN out), Faults(out))

ZipSearch ==
    /\ backend = "zip"
    /\ ncalls < MaxCalls
    /\ closing.calls = 0
    /\ \E pattern \in Patterns, first \in BOOLEAN, force \in BOOLEAN :
         \E out \in Choices(ToExtract(pattern, force, ZipMatching(pattern)),
                            "zip") :
            LET r == FileSeekerZip_search(pattern, first, force, out)
            IN  /\ Applied(r, listing, out)
                /\ Commit(r, pattern, first, force,
                          Found(listing, DOMAIN out), Faults(out))

\* indices of the returned files that carry a path
WebMatching(matching_files) ==
    {k \in 1..Len(matching_files) : WebMatches(matching_files[k])}

\* a failed remote search request is one of the environment's failures; a
\* call served from the cache makes no request
ApiFaults(api) == IF api = "error" THEN 1 ELSE 0

ApiChoices(pattern, force) ==
    IF CacheHit(pattern, force) \/ nfaults >= MaxFaults THEN {"ok"}
    ELSE ApiOutcomes

WebSearch ==
    /\ backend = "web"
    /\ ncalls < MaxCalls
    /\ closing.calls = 0
    /\ \E pattern \in Patterns, first \in BOOLEAN, force \in BOOLEAN :
         \E api \in ApiChoices(pattern, force) :
           LET matching_files == search_api(pattern, api)
           IN  \E out \in Choices(ToExtract(pattern, force,
                                   WebMatching(matching_files)), "web") :
                  LET r == FileSeekerWeb_search(pattern, first, force, out, api)
                  IN  /\ Applied(r, matching_files, out)
                      /\ Commit(r, pattern, first, force,
                                Found(matching_files, DOMAIN out),
                                Faults(out) + ApiFaults(api))

\* FileSeekerBase.cleanup, inherited by FileSeekerDir: "pass"
base_cleanup(res) == [resource |-> res, raised |-> FALSE]

\* FileSeekerTar.cleanup: "self.tar_file.close()"; closing a closed TarFile
\* does nothing
tar_cleanup(res) == [resource |-> "closed", raised |-> FALSE]

\* FileSeekerZip.cleanup: "self.zip_file.close()"; closing a closed ZipFile
\* does nothing
zip_cleanup(res) == [resource |-> "closed", raised |-> FALSE]

\* a cleanup without "if self._session:": None has no close()
web_cleanup_Unguarded(res) ==
    IF res = "none" THEN [resource |-> "none", raised |-> TRUE]
    ELSE [resource |-> "none", raised |-> FALSE]

\* FileSeekerWeb.cleanup: "if self._session: self._session.close();
\*  self._session = None"
web_cleanup(res) ==
    IF res # "none" THEN [resource |-> "none", raised |-> FALSE]
    ELSE [resource |-> res, raised |-> FALSE]

\* seeker.cleanup(); a cleaned-up seeker is not searched again
Cleanup ==
    /\ closing.calls < MaxCleanups
    /\ LET r == CASE backend = "dir" -> base_cleanup(resource)
                   [] backend = "tar" -> tar_cleanup(resource)
                   [] backend = "zip" -> zip_cleanup(resource)
                   [] backend = "web" -> web_cleanup(resource)
       IN  /\ resource' = r.resource
           /\ closing' = [calls |-> closing.calls + 1,
                          raised |-> closing.raised \/ r.raised]
    /\ UNCHANGED <<backend, directory, listing, searched, copied, file_infos,
                   mtimes, writes, disk, ncalls, nfaults, everForced, call,
                   repeated, input, output>>

Next == DirSearch \/ TarSearch \/ ZipSearch \/ WebSearch

Spec == Init /\ [][Next]_vars

\* ------------------------------------------------------------------------
\* The life of an instance to its end: searches, then cleanup calls
\* ------------------------------------------------------------------------

EarlySearch ==
    /\ ncalls < MaxSearches
    /\ (DirSearch \/ TarSearch \/ ZipSearch \/ WebSearch)

NextCleanup == EarlySearch \/ Cleanup

SpecCleanup == Init /\ [][NextCleanup]_vars

\* ------------------------------------------------------------------------
\* One search of a new FileSeekerWeb against a scripted remote
\* ------------------------------------------------------------------------

\* longest run of busy answers a scripted remote gives
MaxBusy == 5

RetryInputs ==
    {[pattern |-> p, script |-> [n |-> n, busy |-> b, final |-> f]] :
        p \in {P_db, P_ab}, n \in 0..MaxBusy,
        b \in Statuses, f \in Statuses}

InitRetry ==
    /\ backend = "web"
    /\ directory = <<>>
    /\ listing = <<>>
    /\ searched = EmptyMap
    /\ copied = EmptyMap
    /\ file_infos = EmptyMap
    /\ mtimes = EmptyMap
    /\ writes = EmptyMap
    /\ disk = {}
    /\ ncalls = 0
    /\ nfaults = 0
    /\ everForced = FALSE
    /\ call = NoCall
    /\ repeated = FALSE
    /\ input \in RetryInputs
    /\ output = <<>>
    /\ resource = "open"
    /\ closing = NoCleanup

\* search(pattern) with the flags at their defaults; every download succeeds
RetrySearch ==
    /\ ncalls = 0
    /\ LET resp == session_get(input.script, 1, RetryTotal)
           api == RequestOutcome(resp)
           matching_files == search_api(input.pattern, api)
           out == [k \in WebMatching(matching_files) |-> "ok"]
           r == FileSeekerWeb_search(input.pattern, FALSE, FALSE, out, api)
       IN  /\ Effects(r, input.pattern, FALSE, FALSE,
                      Found(matching_files, DOMAIN out), ApiFaults(api))
           /\ output' = [attempts |-> resp.attempts, api |-> api]
           /\ input' = input

NextRetry == RetrySearch

SpecRetry == InitRetry /\ [][NextRetry]_vars

\* ------------------------------------------------------------------------
\* One search of a new FileSeekerWeb whose remote holds one file, d.db,
\* with scripted timestamps in the search index and the download headers
\* ------------------------------------------------------------------------

\* a value that may be missing: <<>> or <<v>>
OptMap(key, opt) == IF opt = <<>> THEN EmptyMap ELSE key :> opt[1]

OptHeader(name, opt) ==
    IF opt = <<>> THEN EmptyMap ELSE name :> DecimalString(opt[1])

\* the index entry and the download headers of the remote's file; a garbled
\* remote sends an X-File-Mtime header that is not a number
RemoteFile(in) ==
    [ name |-> S_d_db, isdir |-> FALSE,
      meta |-> OptMap("mtime", in.index_mtime)
                  @@ OptMap("ctime", in.index_ctime),
      headers |-> (IF in.garbled THEN "X-File-Mtime" :> <<"x">>
                   ELSE OptHeader("X-File-Mtime", in.header_mtime))
                  @@ OptHeader("X-File-Ctime", in.header_ctime) ]

StampInputs ==
    [ index_mtime : {<<>>, <<0>>, <<500>>},
      index_ctime : {<<>>, <<0>>, <<400>>},
      header_mtime : {<<>>, <<0>>, <<999>>},
      header_ctime : {<<>>, <<0>>, <<888>>},
      garbled : BOOLEAN ]

InitStamp ==
    /\ backend = "web"
    /\ directory = <<>>
    /\ listing = <<>>
    /\ searched = EmptyMap
    /\ copied = EmptyMap
    /\ file_infos = EmptyMap
    /\ mtimes = EmptyMap
    /\ writes = EmptyMap
    /\ disk = {}
    /\ ncalls = 0
    /\ nfaults = 0
    /\ everForced = FALSE
    /\ call = NoCall
    /\ repeated = FALSE
    /\ input \in StampInputs
    /\ output = <<>>
    /\ resource = "open"
    /\ closing = NoCleanup

\* search("*.db") with the flags at their defaults; the remote search
\* request returns the file and the environment lets the download succeed
StampSearch ==
    /\ ncalls = 0
    /\ LET matching_files == <<RemoteFile(input)>>
           out == [k \in WebMatching(matching_files) |-> "ok"]
           r == WebScan([StartScan EXCEPT !.requests = 1, !.api = "ok"],
                        matching_files, 1,
                        P_db, FALSE, FALSE, out)
       IN  /\ Effects(r, P_db, FALSE, FALSE,
                      Found(matching_files, DOMAIN out), 0)
           /\ output' = [local_path |-> WebLocalPath(S_d_db)]
           /\ input' = input

NextStamp == StampSearch

SpecStamp == InitStamp /\ [][NextStamp]_vars

\* ------------------------------------------------------------------------
\* One search of a new FileSeekerZip over an archive with one member, d.db,
\* whose extra field is scripted
\* ------------------------------------------------------------------------

\* number of records in front of the Extended Timestamp record
MaxPreceding == 1

\* well-formed records of other kinds (Zip64, Unix UID/GID without data)
OtherRecords == {Record(1, <<7, 7>>), Record(30837, <<>>)}

RECURSIVE Flatten(_)
Flatten(parts) ==
    IF parts = <<>> THEN <<>> ELSE Head(parts) \o Flatten(Tail(parts))

\* the well-formed field: the preceding records, then (unless flags is
\* <<>>) an Extended Timestamp record with the given flag byte, holding
\* modification time 2000 and creation time 1000 as far as flagged
WholeField(in) ==
    Flatten(in.pre)
        \o (IF in.flags = <<>> THEN <<>>
            ELSE Record(ExtendedTimestampId,
                        TimestampData(in.flags[1], 2000, 1000)))

\* the field with its last cut bytes missing
ExtraField(in) == SubSeq(WholeField(in), 1, Len(WholeField(in)) - in.cut)

DecodeInputs ==
    {in \in [ pre : UNION {[1..n -> OtherRecords] : n \in 0..MaxPreceding},
              flags : {<<>>, <<0>>, <<1>>, <<4>>, <<5>>},
              cut : 0..(6 * MaxPreceding + 13) ] :
        in.cut <= Len(WholeField(in))}

InitDecode ==
    /\ backend = "zip"
    /\ directory = <<>>
    /\ input \in DecodeInputs
    /\ listing = << [name |-> S_d_db, isdir |-> FALSE,
                     date_time |-> DosEpoch, extra |-> ExtraField(input)] >>
    /\ searched = EmptyMap
    /\ copied = EmptyMap
    /\ file_infos = EmptyMap
    /\ mtimes = EmptyMap
    /\ writes = EmptyMap
    /\ disk = {}
    /\ ncalls = 0
    /\ nfaults = 0
    /\ everForced = FALSE
    /\ call = NoCall
    /\ repeated = FALSE
    /\ output = <<>>
    /\ resource = "open"
    /\ closing = NoCleanup

\* search("*.db") with the flags at their defaults; the environment lets
\* every step of the extraction succeed
DecodeSearch ==
    /\ ncalls = 0
    /\ LET out == [k \in ZipMatching(P_db) |-> "ok"]
           r == FileSeekerZip_search(P_db, FALSE, FALSE, out)
       IN  /\ Effects(r, P_db, FALSE, FALSE, Found(listing, DOMAIN out), 0)
           /\ output' = [ decoded |->
                              decode_extended_timestamp(listing[1].extra),
                          member |-> listing[1].name,
                          path |-> ZipExtractPath(listing[1].name) ]
           /\ input' = input

NextDecode == DecodeSearch

SpecDecode == InitDecode /\ [][NextDecode]_vars

TypeOK ==
    /\ backend \in Backends
    /\ ncalls \in 0..MaxCalls
    /\ DOMAIN searched \subseteq Patterns
    /\ call.kind \in {"none", "list", "single", "raise"}


\* ------------------------------------------------------------------------
\* Vocabulary of the properties
\* ------------------------------------------------------------------------

\* the local path the instance's backend computes for a source item
DestPath(item) ==
    CASE backend = "dir" -> DirDataPath(item, directory)
      [] backend = "tar" -> TarFullPath(item)
      [] backend = "zip" -> ZipExtractPath(item)
      [] backend = "web" -> WebLocalPath(item)

\* the source items of the backend's enumeration that match a pattern, in
\* enumeration order (for the web backend: what the remote index returns)
EnumMatches(pattern) ==
    CASE backend = "dir" ->
            Found(listing, DirMatching(pattern))
      [] backend = "tar" ->
            Found(listing, TarMatching(pattern))
      [] backend = "zip" ->
            Found(listing, ZipMatching(pattern))
      [] backend = "web" ->
            LET L == search_files(pattern)
            IN  Found(L, WebMatching(L))

\* the source item is a directory
IsDirItem(item) ==
    \E k \in 1..Len(listing) : listing[k].name = item /\ listing[k].isdir

\* the call tried to extract the item and the extraction failed
FailedIn(c, item) == item \in DOMAIN c.attempts /\ c.attempts[item] # "ok"

\* no extraction of the call failed
NoFailure(c) == \A item \in DOMAIN c.attempts : c.attempts[item] = "ok"

\* the paths of a sequence of source items
DestPaths(items) == [i \in 1..Len(items) |-> DestPath(items[i])]

\* ------------------------------------------------------------------------
\* C1
\* ------------------------------------------------------------------------

\* C1: when a search that returned is repeated with the same pattern and the
\* same returnFirstOnly, both with force=false, the second call returns
\* exactly what the first returned and writes nothing: no write counter and
\* no file on disk changes.
C1_RepeatedSearchIdempotent ==
    [][(ncalls' = ncalls + 1 /\ repeated')
                 => /\ call'.kind = call.kind
                    /\ call'.ret = call.ret
                    /\ call'.attempts = EmptyMap
                    /\ writes' = writes
                    /\ disk' = disk]_vars

\* a repeated call returned a path whose item was written exactly once
C1_Witness ==
    /\ repeated
    /\ \E item \in DOMAIN writes :
          /\ writes[item] = 1
          /\ DestPath(item) \in Range(call.ret)

\* ------------------------------------------------------------------------
\* C2
\* ------------------------------------------------------------------------

\* C2: search(p, force=true) (returnFirstOnly left false) made when p is
\* already in the pattern cache, and in which no extraction fails, is not
\* served from the cache: every item matching p is extracted again (every
\* matching file is written once more, although it is in the extraction
\* cache), and the pattern cache entry for p becomes the result of this scan,
\* the paths of all matches.
C2_ForceReextracts ==
    [][(/\ ncalls' = ncalls + 1
        /\ call'.force
        /\ ~call'.first
        /\ call'.known
        /\ NoFailure(call'))
       => /\ ~call'.hit
          /\ call'.kind = "list"
          /\ \A i \in 1..Len(call'.found) :
                LET item == call'.found[i]
                IN  /\ item \in DOMAIN call'.attempts
                    /\ ~IsDirItem(item) =>
                          Count(writes', item) = Count(writes, item) + 1
          /\ call'.ret = DestPaths(call'.found)
          /\ searched'[call'.pattern] = call'.ret]_vars

\* a forced search of a cached pattern re-wrote two cached items
C2_Witness ==
    /\ call.force /\ ~call.first /\ call.known /\ NoFailure(call)
    /\ Len(call.found) >= 2
    /\ \A i \in 1..Len(call.found) :
          /\ call.found[i] \in DOMAIN copied
          /\ Count(writes, call.found[i]) >= 2

\* ------------------------------------------------------------------------
\* C3
\* ------------------------------------------------------------------------

\* C3: no search call raises to its caller: every call ends by returning a
\* list or a single path.
C3_SearchNeverRaises == call.kind # "raise"

\* ------------------------------------------------------------------------
\* C4
\* ------------------------------------------------------------------------

NoRepeats(list) ==
    \A i, j \in 1..Len(list) : list[i] = list[j] => i = j

\* C4: every path search returns, and every path held in a pattern cache
\* entry, is a path that was materialized on disk, and no path occurs twice
\* in one result.
C4_ReturnedPathsMaterialized ==
    \A list \in {call.ret} \cup Range(searched) :
        /\ Range(list) \subseteq disk
        /\ NoRepeats(list)


\* ------------------------------------------------------------------------
\* C5
\* ------------------------------------------------------------------------

\* the call scanned three matches, the extraction of the second failed and
\* the first and the third did not fail
SecondOfThreeFailed(c) ==
    /\ c.kind # "none" /\ ~c.hit /\ ~c.first
    /\ Len(c.found) = 3
    /\ FailedIn(c, c.found[2])
    /\ ~FailedIn(c, c.found[1])
    /\ ~FailedIn(c, c.found[3])

\* C5: when a search (returnFirstOnly=false) matches three items and the
\* extraction of the second fails, the call still returns a list, and the
\* list holds the local paths of the first and of the third item.
C5_ScanContinuesPastFailure ==
    SecondOfThreeFailed(call) =>
        /\ call.kind = "list"
        /\ DestPath(call.found[1]) \in Range(call.ret)
        /\ DestPath(call.found[3]) \in Range(call.ret)
        /\ call.found[3] \in DOMAIN copied

\* such a call happened and the third item was extracted after the failure
C5_Witness ==
    /\ SecondOfThreeFailed(call)
    /\ call.found[3] \in DOMAIN call.attempts
    /\ DestPath(call.found[3]) \in Range(call.ret)

\* ------------------------------------------------------------------------
\* C6
\* ------------------------------------------------------------------------

\* C6: a search with returnFirstOnly=true whose scan finds matches, the
\* first of which does not fail to extract, returns the single local path
\* of that first match and extracts no later match; served from the pattern
\* cache it returns the first element of the cached list, which is the path
\* of the first matching item of the enumeration when no failure occurred
\* on the instance.
C6_FirstHitIsFirstMatch ==
    (call.first /\ call.kind # "none") =>
        IF call.hit
        THEN /\ searched[call.pattern] # <<>> =>
                  /\ call.kind = "single"
                  /\ call.ret = <<searched[call.pattern][1]>>
             /\ (nfaults = 0 /\ EnumMatches(call.pattern) # <<>>) =>
                  call.ret = <<DestPath(EnumMatches(call.pattern)[1])>>
        ELSE (call.found # <<>> /\ ~FailedIn(call, call.found[1])) =>
                  /\ call.kind = "single"
                  /\ call.ret = <<DestPath(call.found[1])>>
                  /\ DOMAIN call.attempts \subseteq {call.found[1]}
                  /\ searched[call.pattern] = call.ret

\* an uncached first-hit search over three matches extracted only the first
C6_Witness ==
    /\ call.first /\ ~call.hit
    /\ Len(call.found) = 3
    /\ call.kind = "single"
    /\ DOMAIN call.attempts = {call.found[1]}
    /\ call.ret = <<DestPath(call.found[1])>>

\* ------------------------------------------------------------------------
\* C7
\* ------------------------------------------------------------------------

\* C7: on an instance on which no failure occurred, every search with
\* returnFirstOnly=false returns a list holding the local path of every item
\* of the enumeration that matches the pattern.
C7_FullSearchReturnsAll ==
    (call.kind # "none" /\ ~call.first /\ nfaults = 0) =>
        /\ call.kind = "list"
        /\ Range(DestPaths(EnumMatches(call.pattern))) \subseteq Range(call.ret)

\* ------------------------------------------------------------------------
\* C8
\* ------------------------------------------------------------------------

\* C8: as long as no search was made with force=true, every source item was
\* written to disk at most once, and its entry in the extraction cache is
\* its one local path.
C8_WrittenAtMostOnce ==
    ~everForced =>
        /\ \A item \in DOMAIN writes : writes[item] <= 1
        /\ \A item \in DOMAIN copied : copied[item] = DestPath(item)

\* ------------------------------------------------------------------------
\* C9
\* ------------------------------------------------------------------------

\* C9: on a directory seeker whose root holds a/b.db, the searches of
\* "*/a/b.db", "root/a/b.db" and "a/b.db" all give the same non-empty
\* result.
C9_PrefixFormsEquivalent ==
    backend = "dir" =>
        \A p \in {P_star_ab, P_root_ab, P_ab} \cap DOMAIN searched :
            /\ searched[p] # <<>>
            /\ \A q \in {P_star_ab, P_root_ab, P_ab} \cap DOMAIN searched :
                  searched[q] = searched[p]

\* ------------------------------------------------------------------------
\* C10
\* ------------------------------------------------------------------------

\* path, relative to the root directory, of the k-th entry of the listing
RelativePath(k) == build_files_list(<<>>, <<>>, 1)[k].name

\* C10: every local path a directory seeker produced lies under data_folder
\* and is data_folder joined with the path of the source file relative to
\* the seeker's root directory.
C10_DirPathsUnderDataFolder ==
    backend = "dir" =>
        \A k \in 1..Len(listing) :
            listing[k].name \in DOMAIN copied =>
                /\ StartsWith(copied[listing[k].name], DataFolder \o <<SLASH>>)
                /\ copied[listing[k].name] = PathJoin(DataFolder, RelativePath(k))

\* ------------------------------------------------------------------------
\* C11
\* ------------------------------------------------------------------------

\* the members of the zip archive whose name begins with __MACOSX
MacosxMembers ==
    {listing[k].name : k \in {i \in 1..Len(listing) :
                                 StartsWith(listing[i].name, S_macosx)}}

\* C11: on a zip seeker a member whose name begins with __MACOSX is never
\* matched, never extracted (no attempt, no write, no file on disk, no file
\* record), never entered into the extraction cache, and its path is in no
\* search result and in no pattern cache entry.
C11_MacosxNeverReturned ==
    backend = "zip" =>
        \A member \in MacosxMembers :
            /\ member \notin Range(call.found)
            /\ member \notin DOMAIN call.attempts
            /\ member \notin DOMAIN writes
            /\ member \notin DOMAIN copied
            /\ ZipExtractPath(member) \notin disk
            /\ ZipExtractPath(member) \notin DOMAIN file_infos
            /\ ZipExtractPath(member) \notin Range(call.ret)
            /\ \A list \in Range(searched) :
                  ZipExtractPath(member) \notin Range(list)

\* a zip search returned all three other members for a pattern whose glob
\* also fits the __MACOSX member
C11_Witness ==
    /\ backend = "zip"
    /\ call.kind = "list" /\ ~call.hit
    /\ \E member \in MacosxMembers :
          compile_pattern(normcase(call.pattern),
                          normcase(S_root) \o normcase(member))
    /\ Len(call.ret) = 3
    /\ \A i \in 1..3 : call.found[i] \in DOMAIN copied

\* ------------------------------------------------------------------------
\* C12
\* ------------------------------------------------------------------------

\* the remote answers 503 to the first n attempts and 200 afterwards
Busy503Then200(n) == [n |-> n, busy |-> 503, final |-> 200]

\* C12: the remote search request of a web search is repeated only after an
\* answer with status 429, 500, 502, 503 or 504 and makes at most 4 attempts;
\* the search succeeds exactly when the last answer was 200; against a
\* remote answering 503 three times and then 200 it succeeds with the 4th
\* attempt and returns the matching files; against a remote answering 503
\* four times or more it fails after exactly 4 attempts and the search
\* returns the empty list.
C12_RetryBound ==
    output # <<>> =>
        LET script == input.script
            last == AnswerAt(script, output.attempts)
        IN  /\ output.attempts \in 1..(RetryTotal + 1)
            /\ \A i \in 1..(output.attempts - 1) :
                  AnswerAt(script, i) \in {429, 500, 502, 503, 504}
            /\ last \in {429, 500, 502, 503, 504} => output.attempts = 4
            /\ (output.api = "ok") = (last = 200)
            /\ call.kind = "list"
            /\ output.api = "ok" =>
                  call.ret = DestPaths(EnumMatches(input.pattern))
            /\ output.api = "error" => call.ret = <<>>
            /\ script = Busy503Then200(3) =>
                  output.attempts = 4 /\ output.api = "ok"
            /\ (script.busy = 503 /\ script.n >= 4) =>
                  /\ output.attempts = 4
                  /\ output.api = "error"
                  /\ call.ret = <<>>

\* the search succeeded with the fourth attempt, after three answers 503
C12_Witness ==
    /\ output # <<>>
    /\ input.script = Busy503Then200(3)
    /\ output.attempts = 4
    /\ Len(call.ret) = 3
    /\ Range(call.ret) \subseteq disk

\* ------------------------------------------------------------------------
\* C13
\* ------------------------------------------------------------------------

\* the value the fallback order gives: the search index value unless it is
\* missing or zero, else the download header value unless it is missing or
\* zero, else zero, which stands for an absent time
FallbackOrder(index, header) ==
    IF index # <<>> /\ index[1] # 0 THEN index[1]
    ELSE IF header # <<>> /\ header[1] # 0 THEN header[1]
    ELSE 0

\* C13: the FileInfo a web seeker records for a downloaded item holds, as
\* modification and as creation time, the value of the search index when
\* that is present and not zero, else the value of the download header when
\* that is present and not zero, else zero (absent); with index mtime 500
\* and header X-File-Mtime 999 the recorded modification time is 500.
C13_TimestampPrecedence ==
    (output # <<>> /\ output.local_path \in DOMAIN file_infos) =>
        LET rec == file_infos[output.local_path]
        IN  /\ rec.modification_date =
                   FallbackOrder(input.index_mtime, input.header_mtime)
            /\ rec.creation_date =
                   FallbackOrder(input.index_ctime, input.header_ctime)
            /\ (input.index_mtime = <<500>> /\ input.header_mtime = <<999>>)
                  => rec.modification_date = 500

\* a file whose index says mtime 500 and whose header said 999 (the time
\* the file on disk was given) was recorded with modification time 500
C13_Witness ==
    /\ output # <<>>
    /\ input.index_mtime = <<500>> /\ input.header_mtime = <<999>>
    /\ input.index_ctime = <<0>> /\ input.header_ctime = <<888>>
    /\ output.local_path \in DOMAIN file_infos
    /\ file_infos[output.local_path].modification_date = 500
    /\ file_infos[output.local_path].creation_date = 888
    /\ mtimes[output.local_path] = 999

\* ------------------------------------------------------------------------
\* C14
\* ------------------------------------------------------------------------

\* C14: decode_extended_timestamp returns (creation, modification): for a
\* well-formed extra field whose 0x5455 record has flags 0b101 and holds
\* mtime 2000 followed by ctime 1000 it returns (1000, 2000), whatever
\* well-formed records precede that record; for a well-formed field without
\* a 0x5455 record, the empty field included, it returns (None, None); the
\* FileInfo of the extracted member holds the pair.
C14_DecodeReturnsCreationModification ==
    (output # <<>> /\ input.cut = 0) =>
        /\ input.flags = <<5>> =>
              /\ output.decoded.kind = "ok"
              /\ output.decoded.creation = <<1000>>
              /\ output.decoded.modification = <<2000>>
              /\ file_infos[output.path].creation_date = <<1000>>
              /\ file_infos[output.path].modification_date = <<2000>>
        /\ input.flags = <<>> =>
              /\ output.decoded.kind = "ok"
              /\ output.decoded.creation = <<>>
              /\ output.decoded.modification = <<>>
              /\ file_infos[output.path].creation_date = <<>>
              /\ file_infos[output.path].modification_date = <<>>

\* a field with a record in front of the 0x5455 record was decoded to
\* creation 1000 and modification 2000
C14_Witness ==
    /\ output # <<>>
    /\ input.cut = 0 /\ input.flags = <<5>> /\ Len(input.pre) = 1
    /\ output.decoded.creation = <<1000>>
    /\ output.decoded.modification = <<2000>>
    /\ output.member \in DOMAIN copied

\* ------------------------------------------------------------------------
\* C17
\* ------------------------------------------------------------------------

\* C17: on a zip seeker the on-disk modification time of every extracted
\* member is the modification time of its Extended Timestamp record when
\* its extra field carries one, and its DOS date/time in epoch seconds when
\* it does not.
C17_DiskMtimeBestAvailable ==
    backend = "zip" =>
        \A k \in 1..Len(listing) :
            listing[k].name \in DOMAIN copied =>
                LET path == copied[listing[k].name]
                    stamp == decode_extended_timestamp(listing[k].extra)
                IN  /\ path \in DOMAIN mtimes
                    /\ mtimes[path] =
                          IF stamp.kind = "ok" /\ stamp.modification # <<>>
                          THEN stamp.modification[1]
                          ELSE mktime(listing[k].date_time)

\* ------------------------------------------------------------------------
\* C18
\* ------------------------------------------------------------------------

\* C18: whatever bytes the extra field of a zip member holds (a field cut
\* off inside a record header, inside the flag byte or inside a flagged
\* timestamp included), decode_extended_timestamp does not raise, and the
\* search records the member as extracted, with a FileInfo.
C18_TruncatedExtraTolerated ==
    output # <<>> =>
        /\ output.decoded.kind = "ok"
        /\ output.member \in DOMAIN copied
        /\ output.path \in DOMAIN file_infos

\* ------------------------------------------------------------------------
\* C15
\* ------------------------------------------------------------------------

\* C15: after any sequence of searches, however often cleanup is called, no
\* cleanup call raises, and from the first cleanup call on the backend's
\* resource is released: the archive handle of a tar or zip seeker is
\* closed, the session of a web seeker is dropped, and a directory seeker
\* owns no resource.
C15_CleanupIdempotent ==
    /\ ~closing.raised
    /\ closing.calls >= 1 =>
          resource = CASE backend = "dir" -> "absent"
                       [] backend \in {"tar", "zip"} -> "closed"
                       [] backend = "web" -> "none"

\* a web seeker that had searched was cleaned up twice in a row
C15_Witness ==
    /\ backend = "web"
    /\ ncalls >= 1 /\ copied # EmptyMap
    /\ closing.calls = 2
    /\ resource = "none"

\* ------------------------------------------------------------------------
\* C16
\* ------------------------------------------------------------------------

\* C16: a search with force=false for a pattern that is in the pattern
\* cache changes nothing: no write, no file or file time on disk changes,
\* no extraction is attempted, no HTTP request is issued, and the pattern
\* cache, the extraction cache and the file-record map stay as they were;
\* and an entry of the pattern cache is never removed and changes only in a
\* search of its pattern made with force=true.
C16_CacheHitChangesNothing ==
    [][/\ (ncalls' = ncalls + 1 /\ call'.known /\ ~call'.force) =>
             /\ searched' = searched
             /\ copied' = copied
             /\ file_infos' = file_infos
             /\ writes' = writes
             /\ disk' = disk
             /\ mtimes' = mtimes
             /\ call'.attempts = EmptyMap
             /\ call'.requests = 0
       /\ \A p \in DOMAIN searched :
             /\ p \in DOMAIN searched'
             /\ searched'[p] # searched[p] =>
                   /\ ncalls' = ncalls + 1
                   /\ call'.force
                   /\ call'.pattern = p]_vars

\* a web search was served from the pattern cache: it returned the paths
\* cached by an earlier call that had issued requests, and issued none
C16_Witness ==
    /\ backend = "web"
    /\ call.known /\ ~call.force
    /\ call.requests = 0
    /\ call.ret # <<>>
    /\ call.ret = searched[call.pattern]
    /\ Range(call.ret) \subseteq disk

\* ------------------------------------------------------------------------
\* C19
\* ------------------------------------------------------------------------

\* the two-form rule: "root/" + pattern matches "root/" + name, or the raw
\* pattern matches "root/" + name
TwoFormMatch(pattern, name) ==
    \/ compile_pattern(S_root \o pattern, S_root \o name)
    \/ compile_pattern(pattern, S_root \o name)

\* C19: in a scan of a tar or zip seeker the members matched are those the
\* two-form rule selects (the __MACOSX members of a zip archive aside); in
\* particular the searches of "a/b.db", "root/a/b.db" and "*/a/b.db" each
\* match the member a/b.db and return its path.
C19_TwoFormMatching ==
    (backend \in {"tar", "zip"} /\ call.kind # "none" /\ ~call.hit) =>
        /\ \A k \in 1..Len(listing) :
              (listing[k].name \in Range(call.found))
                 = (/\ TwoFormMatch(call.pattern, listing[k].name)
                    /\ listing[k].name \notin MacosxMembers)
        /\ (call.pattern \in {P_ab, P_root_ab, P_star_ab}
             /\ call.kind \in {"list", "single"}) =>
                DestPath(S_a_b_db) \in Range(call.ret)

\* ------------------------------------------------------------------------
\* C20
\* ------------------------------------------------------------------------

\* C20: the index of a directory seeker holds the path of every regular
\* file under the root and no directory, and no search matches or returns
\* the path of a directory.
C20_IndexHoldsFilesOnly ==
    backend = "dir" =>
        /\ \A i \in 1..Len(build_file_index(<<>>, 1)) :
              \E k \in 1..Len(listing) :
                 /\ RelativePath(k) = build_file_index(<<>>, 1)[i].name
                 /\ ~listing[k].isdir
        /\ \A k \in 1..Len(listing) :
              /\ ~listing[k].isdir
              /\ listing[k].isdir =>
                    /\ listing[k].name \notin Range(call.found)
                    /\ PathJoin(DataFolder, RelativePath(k))
                          \notin Range(call.ret)

\* ------------------------------------------------------------------------
\* C21: in every backend, a search(p, return_on_first_hit = True) that is
\* not served from the pattern cache and returns a first hit leaves
\* searched[p] equal to the one-element list holding exactly the returned
\* path; when no source item matches p, it leaves searched[p] = [] and
\* returns the empty list, not a single value
\* ------------------------------------------------------------------------
C21_FirstHitCacheEntry ==
    (call.kind # "none" /\ call.first /\ ~call.hit) =>
        /\ call.kind = "single" =>
              /\ Len(call.ret) = 1
              /\ call.pattern \in DOMAIN searched
              /\ searched[call.pattern] = <<call.ret[1]>>
        /\ call.found = <<>> =>
              /\ call.kind = "list"
              /\ call.ret = <<>>
              /\ call.pattern \in DOMAIN searched
              /\ searched[call.pattern] = <<>>

\* a remote first-hit search whose first matching file could not be
\* downloaded returned the second one, and the cache holds just that path
C21_Witness ==
    /\ backend = "web"
    /\ call.first /\ ~call.hit
    /\ call.kind = "single"
    /\ Len(call.found) >= 2
    /\ FailedIn(call, call.found[1])
    /\ call.ret = <<DestPath(call.found[2])>>
    /\ searched[call.pattern] = call.ret

\* a first-hit search that matched nothing returned and cached the empty list
C21_WitnessNoMatch ==
    /\ call.kind = "list"
    /\ call.first /\ ~call.hit
    /\ call.found = <<>>
    /\ call.ret = <<>>
    /\ searched[call.pattern] = <<>>

\* ------------------------------------------------------------------------
\* C22: in FileSeekerWeb, a search whose remote search request fails stores
\* the empty list under its pattern and returns it; from then on every
\* search of that pattern with force = False is served from the pattern
\* cache: it returns the empty list, issues no HTTP request and changes no
\* cache; only a search of the pattern with force = True contacts the
\* remote again
\* ------------------------------------------------------------------------
C22_FailedSearchCachedEmpty ==
    [][(backend = "web" /\ ncalls' = ncalls + 1) =>
          /\ call'.api = "error" =>
                /\ call'.kind = "list"
                /\ call'.ret = <<>>
                /\ call'.pattern \in DOMAIN searched'
                /\ searched'[call'.pattern] = <<>>
          /\ (call'.pattern \in call.failed /\ ~call'.force) =>
                /\ call'.hit
                /\ call'.kind = "list"
                /\ call'.ret = <<>>
                /\ call'.requests = 0
                /\ call'.api = "none"
                /\ searched' = searched
                /\ call'.failed = call.failed
          /\ (call'.pattern \in call.failed /\ call'.force) =>
                /\ ~call'.hit
                /\ call'.requests >= 1
                /\ call'.api # "none"
      ]_vars

\* a first-hit search with force = False of a pattern whose earlier remote
\* search request had failed returned the empty list without a request
C22_Witness ==
    /\ backend = "web"
    /\ ncalls = 2
    /\ call.pattern \in call.failed
    /\ call.first /\ ~call.force
    /\ call.hit
    /\ call.kind = "list"
    /\ call.ret = <<>>
    /\ call.requests = 0
    /\ searched[call.pattern] = <<>>

\* a forced search of such a pattern contacted the remote again and found
\* its file
C22_WitnessForced ==
    /\ backend = "web"
    /\ ncalls = 2
    /\ call.force
    /\ call.api = "ok"
    /\ call.pattern \notin call.failed
    /\ nfaults = 1
    /\ call.requests >= 2
    /\ call.ret # <<>>

====
